---- MODULE Spec2Model ----
(***************************************************************************)
(* Model of the two lab-automation consultant tools:                       *)
(*   inventor_agent.py   get_lab_requirements / find_automation_solution    *)
(*   inventor_agent2.py  generate_weighing_station_urs                      *)
(*                                                                         *)
(* A Python str is modelled as a Text: a sequence of atoms.  An atom is a   *)
(* TLA+ string standing for one character (" ", "_", "*", "\n", "a", "A")   *)
(* or for an unbroken run of characters that the code never looks inside    *)
(* (a word such as "weighing", a literal piece of an f-string template).    *)
(* Every "\n", "*" and " " the code emits next to interpolated text is an   *)
(* atom of its own, so that lines and bullets can be recognised in the      *)
(* rendered output.  Non-ASCII characters of the source literals (the two   *)
(* emoji of the titles, the check mark, the micro sign) are transliterated  *)
(* to ASCII inside the atoms; "[Sigma]", "[sigma]" and "[final sigma]" stand *)
(* for the Greek letters U+03A3, U+03C3 and U+03C2.                         *)
(*                                                                         *)
(* An Optional value is a set: {} is None / absent, {v} is the value v.     *)
(***************************************************************************)
EXTENDS Integers, Sequences, FiniteSets, TLC

VARIABLES
    kb,         \* the module global SOLUTION_KNOWLEDGE_BASE (a mutable dict)
    pc,         \* pc[c]: "idle" before conversation c's tool call, "done" after
    tool,       \* tool[c]: the tool conversation c called ("none" before)
    args,       \* args[c]: the keyword arguments of that call
    reqs,       \* reqs[c]: the LabRequirements built by the call, {} if none
    urs_data,   \* urs_data[c]: the WeighingStationURS built by the call, {} if none
    outcome     \* outcome[c]: how the call ended and the string it returned

vars == <<kb, pc, tool, args, reqs, urs_data, outcome>>

-----------------------------------------------------------------------------
(* Bounds of the checked input sets. *)

MaxDomainLen == 3    \* longest problem_domain drawn atom by atom
MaxPad == 1          \* most whitespace atoms put on each side of a phrase
MaxSamples == 5      \* samples_per_day ranges over -MaxSamples..MaxSamples
MaxProcessLen == 2   \* longest current_process drawn atom by atom
MaxTextLen == 3      \* longest scalar field of the URS drawn atom by atom
MaxElemLen == 1      \* longest plain list element of the URS
MaxListLen == 2      \* longest list field of the URS
NumConvs == 2        \* concurrent conversations in SpecConv
MaxPairLen == 2      \* longest problem_domain drawn atom by atom in SpecPair

-----------------------------------------------------------------------------
(* Text helpers. *)

RECURSIVE Concat(_)
Concat(ss) == IF ss = <<>> THEN <<>> ELSE Head(ss) \o Concat(Tail(ss))

RECURSIVE TextsOfLen(_, _)
TextsOfLen(alphabet, n) ==
    IF n = 0 THEN {<<>>}
    ELSE {<<a>> \o t : a \in alphabet, t \in TextsOfLen(alphabet, n - 1)}

Texts(alphabet, maxLen) == UNION {TextsOfLen(alphabet, n) : n \in 0..maxLen}

\* the positions where atom a occurs in text r, and their number
Positions(r, a) == {i \in 1..Len(r) : r[i] = a}
Count(r, a) == Cardinality(Positions(r, a))

\* positions that start a line of r
LineStarts(r) == {i \in 1..Len(r) : i = 1 \/ r[i - 1] = "\n"}

\* positions of r where a line begins with the bullet marker "* "
BulletStarts(r) ==
    {i \in LineStarts(r) : i + 1 <= Len(r) /\ r[i] = "*" /\ r[i + 1] = " "}

\* the line of r that starts at position i, without its line break
LineAt(r, i) ==
    LET ends == {j \in i..Len(r) : r[j] = "\n"}
        stop == IF ends = {} THEN Len(r) + 1
                ELSE CHOOSE j \in ends : \A k \in ends : j <= k
    IN SubSeq(r, i, stop - 1)

-----------------------------------------------------------------------------
(* str.lower(), str.strip(), str.replace(" ", "_"), str(int). *)

\* the upper-case and capitalised ASCII atoms of the model, each with its
\* lower case
CasePairs ==
    { <<"A", "a">>,
      <<"Weighing", "weighing">>, <<"WEIGHING", "weighing">>,
      <<"Sample", "sample">>, <<"Handling", "handling">>,
      <<"Logistics", "logistics">>,
      <<"Stations", "stations">>,
      <<"Data", "data">>, <<"Analysis", "analysis">> }

LowerAtom(a) ==
    IF \E p \in CasePairs : p[1] = a
    THEN (CHOOSE p \in CasePairs : p[1] = a)[2]
    ELSE a

\* the atoms of the model that are not cased letters; none of them is
\* case-ignorable
Uncased == {" ", "\t", "\n", "_", "*"}
Cased(a) == a \notin Uncased

\* str.lower() maps a capital sigma to the final sigma when a cased letter
\* comes before it and none comes after it, and to the small sigma otherwise
FinalSigma(s, i) ==
    /\ i > 1 /\ Cased(s[i - 1])
    /\ ~(i < Len(s) /\ Cased(s[i + 1]))

lower(s) ==
    [i \in 1..Len(s) |->
        IF s[i] = "[Sigma]"
        THEN IF FinalSigma(s, i) THEN "[final sigma]" ELSE "[sigma]"
        ELSE LowerAtom(s[i])]

\* the characters str.strip() removes that the model draws
Whitespace == {" ", "\t", "\n"}

RECURSIVE lstrip(_)
lstrip(s) ==
    IF s # <<>> /\ Head(s) \in Whitespace THEN lstrip(Tail(s)) ELSE s

RECURSIVE rstrip(_)
rstrip(s) ==
    IF s # <<>> /\ s[Len(s)] \in Whitespace
    THEN rstrip(SubSeq(s, 1, Len(s) - 1))
    ELSE s

\* faulty variant: only the leading whitespace is removed
strip_leading(s) == lstrip(s)

strip(s) == rstrip(lstrip(s))

replace(s, old, new) == [i \in 1..Len(s) |-> IF s[i] = old THEN new ELSE s[i]]

Digit == <<"0", "1", "2", "3", "4", "5", "6", "7", "8", "9">>

RECURSIVE NatToText(_)
NatToText(n) ==
    IF n < 10 THEN <<Digit[n + 1]>>
    ELSE NatToText(n \div 10) \o <<Digit[(n % 10) + 1]>>

\* f"{throughput}" of an int
IntToText(n) == IF n < 0 THEN <<"-">> \o NatToText(-n) ELSE NatToText(n)

-----------------------------------------------------------------------------
(* inventor_agent.py: the knowledge base. *)

KeyWeighing == <<"weighing">>
KeySampleHandlingLogistics == <<"sample", "_", "handling", "_", "logistics">>

SolutionAPL01 ==
    [ solution_name |-> <<"Automated Weighing Station (URS APL01)">>,
      description |-> <<"An automated or semi-automated station to replace manual weighing[cite: 515]. Handles weighing compounds from 0.2mg - 100g [cite: 527] and supports one-to-many, one-to-one, and many-to-one workflows[cite: 541].">>,
      example_vendors |-> << <<"(Vendor research needed)">> >>,
      avg_budget |-> <<"$70,000 - $200,000">>,
      key_requirements |->
        << <<"Handle solids (powders, flakes, etc) and liquids [cite: 529]">>,
           <<"Read/produce barcodes [cite: 533]">>,
           <<"Throughput: 84+ compounds/day [cite: 535]">>,
           <<"Import/export worklists (csv, xml) [cite: 539]">> >> ]

SolutionAPL02 ==
    [ solution_name |-> <<"Manual Computer-Assisted Weighing Station (URS APL02)">>,
      description |-> <<"A simpler station that assists a human user[cite: 548, 571]. It displays target weights, automatically records the weight, and steps through a compound list[cite: 585].">>,
      example_vendors |-> << <<"(Vendor research needed)">> >>,
      avg_budget |-> <<"$10,000 - $40,000">>,
      key_requirements |->
        << <<"Assist user by displaying target weight [cite: 585]">>,
           <<"Read barcodes from source/destination containers [cite: 589]">>,
           <<"Import/export worklists (csv) [cite: 593, 595]">> >> ]

SolutionAPL07 ==
    [ solution_name |-> <<"Logistics Robot 1: Tube Handling & Weighing (URS APL07)">>,
      description |-> <<"A logistics robot to fix the bottleneck of manually handling 23,000+ tubes/year[cite: 353, 372]. It automates labeling, barcoding, weighing, and pick & place operations[cite: 894, 920].">>,
      example_vendors |-> << <<"(Vendor research needed)">> >>,
      avg_budget |-> <<"$150,000 - $300,000">>,
      key_requirements |->
        << <<"Pick & place tubes between different rack types (e.g., rack80 to Genevac racks) [cite: 924]">>,
           <<"Weigh and barcode >25,000 tubes/year [cite: 943]">>,
           <<"Weigh rack of 24 tubes in < 20 min [cite: 943]">>,
           <<"Controlled via API / worklists [cite: 928]">> >> ]

SolutionAPL08 ==
    [ solution_name |-> <<"Logistics Robot 2: Liquid Handling (URS APL08)">>,
      description |-> <<"A logistics robot focused on liquid handling steps for synthesis and purification[cite: 962].">>,
      example_vendors |-> << <<"(Vendor research needed)">> >>,
      avg_budget |-> <<"$100,000 - $250,000">>,
      key_requirements |->
        << <<"Aspirate/dispense volumes from 5ul to 30ml [cite: 988]">>,
           <<"Pool fractions from rack-to-rack [cite: 990]">>,
           <<"Redissolve dried fractions in racks [cite: 990]">>,
           <<"Controlled via API / worklists [cite: 994]">> >> ]

SOLUTION_KNOWLEDGE_BASE ==
    (KeyWeighing :> <<SolutionAPL01, SolutionAPL02>>)
    @@ (KeySampleHandlingLogistics :> <<SolutionAPL07, SolutionAPL08>>)

-----------------------------------------------------------------------------
(* inventor_agent.py: LabRequirements and the two functions. *)

\* pydantic's check of LabRequirements(...): the three Field(...) are required,
\* budget is Optional with default None; no field carries a constraint
LabRequirementsValid(a) ==
    /\ a.problem_domain # {}
    /\ a.samples_per_day # {}
    /\ a.current_process # {}

\* the model instance LabRequirements(...) builds from valid arguments
LabRequirements(a) ==
    [ problem_domain |-> CHOOSE v \in a.problem_domain : TRUE,
      samples_per_day |-> CHOOSE v \in a.samples_per_day : TRUE,
      current_process |-> CHOOSE v \in a.current_process : TRUE,
      budget |-> a.budget ]

\* faulty variant: the arguments of replace are swapped
normalize_swapped(raw) == replace(strip(lower(raw)), "_", " ")

\* requirements.problem_domain.lower().strip().replace(" ", "_")
normalize(raw) == replace(strip(lower(raw)), " ", "_")

TitleProposal == <<"--- [robot] AI Consultant: Solution Proposal --- ", "\n", "\n">>
LabelSolution == "### [check] Recommended Solution: "
LabelDescription == "**What it does:** "
LabelBudget == "**Estimated Budget:** "
LabelRequirements == "**Key Requirements (from URS):**"
BlockRule == "---"
ClosingProposal ==
    <<"\n", "This proposal is a starting point. We can now dive deeper into specific products.">>

\* the message of the early return
NoSolutionMessage(domain) ==
    <<"I have understood your need for '">> \o domain
        \o <<"', but I do not have a pre-built solution for that in my database.">>

\* faulty variant: the process description is stripped before it is quoted
SummaryHeader_stripped(domain, throughput, current_process) ==
    <<"Based on your bottleneck with **">> \o domain
        \o <<"** (processing **">> \o IntToText(throughput)
        \o <<" samples/day** using a '">> \o strip(current_process)
        \o <<"' process), I have identified the following automation solutions from my URS knowledge base:",
             "\n", "\n">>

\* the second "summary +=": the sentence restating the request
SummaryHeader(domain, throughput, current_process) ==
    <<"Based on your bottleneck with **">> \o domain
        \o <<"** (processing **">> \o IntToText(throughput)
        \o <<" samples/day** using a '">> \o current_process
        \o <<"' process), I have identified the following automation solutions from my URS knowledge base:",
             "\n", "\n">>

\* one pass of the inner loop: f"* {req}\n"
RequirementBullet(req) == <<"*", " ">> \o req \o <<"\n">>

\* one pass of the outer loop "for sol in possible_solutions"
SolutionBlock(sol) ==
    <<LabelSolution>> \o sol.solution_name \o <<"\n">>
        \o <<LabelDescription>> \o sol.description \o <<"\n">>
        \o <<LabelBudget>> \o sol.avg_budget \o <<"\n">>
        \o <<LabelRequirements, "\n">>
        \o Concat([i \in 1..Len(sol.key_requirements) |->
                      RequirementBullet(sol.key_requirements[i])])
        \o <<BlockRule, "\n">>

\* faulty variant: the solutions are listed last to first
SolutionProposal_reversed(domain, throughput, current_process, possible_solutions) ==
    TitleProposal
      \o SummaryHeader(domain, throughput, current_process)
      \o Concat([i \in 1..Len(possible_solutions) |->
                    SolutionBlock(possible_solutions[Len(possible_solutions) + 1 - i])])
      \o ClosingProposal

\* the summary report built for a domain found in the knowledge base
SolutionProposal(domain, throughput, current_process, possible_solutions) ==
    TitleProposal
      \o SummaryHeader(domain, throughput, current_process)
      \o Concat([i \in 1..Len(possible_solutions) |->
                    SolutionBlock(possible_solutions[i])])
      \o ClosingProposal

\* faulty variant: a domain that starts with a catalog key is taken for that key
find_automation_solution_prefix(base, requirements) ==
    LET domain == normalize(requirements.problem_domain)
        throughput == requirements.samples_per_day
        hits == {k \in DOMAIN base :
                    Len(k) <= Len(domain) /\ SubSeq(domain, 1, Len(k)) = k}
    IN IF hits = {}
       THEN NoSolutionMessage(domain)
       ELSE SolutionProposal(domain, throughput, requirements.current_process,
                             base[CHOOSE k \in hits : TRUE])

find_automation_solution(base, requirements) ==
    LET domain == normalize(requirements.problem_domain)
        throughput == requirements.samples_per_day
    IN IF domain \notin DOMAIN base
       THEN NoSolutionMessage(domain)
       ELSE SolutionProposal(domain, throughput,
                             requirements.current_process, base[domain])

\* faulty variant: the matched entry is popped from the dict
KnowledgeBaseAfter_pop(base, requirements) ==
    [k \in DOMAIN base \ {normalize(requirements.problem_domain)} |-> base[k]]

\* the knowledge base after a call of find_automation_solution: the function
\* only reads the dict
KnowledgeBaseAfter(base, requirements) == base

NoRecord == {}
NotCalled == [kind |-> "none", value |-> <<>>]
ValidationError == [kind |-> "ValidationError", value |-> <<>>]
Returned(report) == [kind |-> "return", value |-> report]

\* the tool get_lab_requirements, called by conversation c with arguments a
get_lab_requirements(c, a) ==
    /\ pc[c] = "idle"
    /\ pc' = [pc EXCEPT ![c] = "done"]
    /\ tool' = [tool EXCEPT ![c] = "get_lab_requirements"]
    /\ args' = [args EXCEPT ![c] = a]
    /\ urs_data' = urs_data
    /\ IF LabRequirementsValid(a)
       THEN /\ reqs' = [reqs EXCEPT ![c] = {LabRequirements(a)}]
            /\ outcome' = [outcome EXCEPT ![c] =
                   Returned(find_automation_solution(kb, LabRequirements(a)))]
            /\ kb' = KnowledgeBaseAfter(kb, LabRequirements(a))
       ELSE /\ reqs' = [reqs EXCEPT ![c] = NoRecord]
            /\ outcome' = [outcome EXCEPT ![c] = ValidationError]
            /\ kb' = kb

-----------------------------------------------------------------------------
(* inventor_agent2.py: WeighingStationURS and generate_weighing_station_urs. *)

ScalarFields ==
    {"project_scope", "throughput", "weighing_specs",
     "identification_labeling", "data_handling"}
ListFields == {"chemical_types", "labware_containers", "workflow_use_cases"}

\* pydantic's check of WeighingStationURS(...): eight required fields, no
\* field carries a constraint
WeighingStationURSValid(a) == \A f \in ScalarFields \cup ListFields : a[f] # {}

\* the model instance WeighingStationURS(...) builds from valid arguments
WeighingStationURS(a) ==
    [f \in ScalarFields \cup ListFields |-> CHOOSE v \in a[f] : TRUE]

TitleURS ==
    <<"--- [clipboard] AI Consultant: Generated URS Document (APL01-Draft) --- ",
      "\n", "\n",
      "Thank you. Based on our interview, I have drafted the following User Requirements Specification (URS) for the new **Automated Weighing Station**.",
      "\n", "\n">>
Header1 == "### 1. Project Scope"
Header2 == "### 2. Throughput"
Header3 == "### 3. Weighing Specifications"
Header4 == "### 4. Categories of Chemicals"
Header5 == "### 5. Labware"
Header6 == "### 6. Identification & Labeling"
Header7 == "### 7. Input/Output Data"
Header8 == "### 8. Workflows / Use Cases"
SectionHeaders ==
    <<Header1, Header2, Header3, Header4, Header5, Header6, Header7, Header8>>
ClosingURS ==
    <<"\n", "---", "\n", "This draft can now be used for the 'Solution Finding' phase.">>

\* one pass of a loop "for item in ...": f"* {item}\n"
ItemBullet(item) == <<"*", " ">> \o item \o <<"\n">>

\* faulty variant: the items are listed last to first
ItemBullets_reversed(items) ==
    Concat([i \in 1..Len(items) |-> ItemBullet(items[Len(items) + 1 - i])])

ItemBullets(items) == Concat([i \in 1..Len(items) |-> ItemBullet(items[i])])

\* report += for section 1
Section1(d) ==
    <<Header1, "\n">> \o <<"*", " ">> \o d.project_scope \o <<"\n", "\n">>

\* report += for section 2
Section2(d) ==
    <<Header2, "\n">>
      \o <<"*", " ">> \o d.throughput \o <<" [cite: 562]", "\n", "\n">>

\* report += for section 3
Section3(d) ==
    <<Header3, "\n">>
      \o <<"*", " ", "**Range & Precision:** ">> \o d.weighing_specs
      \o <<" [cite: 554]", "\n", "\n">>

\* report += for section 4
Section4(d) ==
    <<Header4, "\n">>
      \o <<"The system must handle: [cite: 556]", "\n">>
      \o ItemBullets(d.chemical_types)
      \o <<"\n">>

\* faulty variant: section 5 repeats the header of section 4
Section5_copiedHeader(d) ==
    <<Header4, "\n">>
      \o <<"The system must handle: [cite: 558]", "\n">>
      \o ItemBullets(d.labware_containers)
      \o <<"\n">>

\* report += for section 5
Section5(d) ==
    <<Header5, "\n">>
      \o <<"The system must handle: [cite: 558]", "\n">>
      \o ItemBullets(d.labware_containers)
      \o <<"\n">>

\* report += for section 6
Section6(d) ==
    <<Header6, "\n">>
      \o <<"*", " ">> \o d.identification_labeling
      \o <<" [cite: 560]", "\n", "\n">>

\* report += for section 7
Section7(d) ==
    <<Header7, "\n">>
      \o <<"*", " ">> \o d.data_handling \o <<" [cite: 566]", "\n", "\n">>

\* report += for section 8, up to the loop's end
Section8(d) ==
    <<Header8, "\n">>
      \o <<"The system must support: [cite: 568]", "\n">>
      \o ItemBullets(d.workflow_use_cases)

\* the report built from the validated model instance d
RenderURS(d) ==
    TitleURS
      \o Section1(d) \o Section2(d) \o Section3(d) \o Section4(d)
      \o Section5(d) \o Section6(d) \o Section7(d) \o Section8(d)
      \o ClosingURS

\* the tool generate_weighing_station_urs, called by conversation c with
\* arguments a
generate_weighing_station_urs(c, a) ==
    /\ pc[c] = "idle"
    /\ pc' = [pc EXCEPT ![c] = "done"]
    /\ tool' = [tool EXCEPT ![c] = "generate_weighing_station_urs"]
    /\ args' = [args EXCEPT ![c] = a]
    /\ reqs' = reqs
    /\ kb' = kb
    /\ IF WeighingStationURSValid(a)
       THEN /\ urs_data' = [urs_data EXCEPT ![c] = {WeighingStationURS(a)}]
            /\ outcome' = [outcome EXCEPT ![c] =
                   Returned(RenderURS(WeighingStationURS(a)))]
       ELSE /\ urs_data' = [urs_data EXCEPT ![c] = NoRecord]
            /\ outcome' = [outcome EXCEPT ![c] = ValidationError]

-----------------------------------------------------------------------------
(* The arguments the dialogue driver may pass to the tools. *)

None == {}
Some(v) == {v}

TriageArgs(domain, samples, process, budget) ==
    [ problem_domain |-> domain, samples_per_day |-> samples,
      current_process |-> process, budget |-> budget ]

\* the forms of an atom that differ from it in letter case only
CaseForms(a) == {a} \cup {p[1] : p \in {q \in CasePairs : q[2] = a}}

RECURSIVE CaseVariants(_)
CaseVariants(s) ==
    IF s = <<>> THEN {<<>>}
    ELSE {<<h>> \o t : h \in CaseForms(Head(s)), t \in CaseVariants(Tail(s))}

Pads(n) == Texts(Whitespace, n)

\* t with up to n atoms of whitespace put before and after it
Padded(t, n) == {l \o t \o r : l \in Pads(n), r \in Pads(n)}

DomainAlphabet == {"a", "A", " ", "_", "\t", "[Sigma]", "[sigma]"}
ShortDomains == Texts(DomainAlphabet, MaxDomainLen)

\* the catalog keys as a user may write them, near misses, and a domain that
\* carries a line break followed by a bullet marker
Phrases ==
    { <<"weighing">>,
      <<"sample", " ", "handling", " ", "logistics">>,
      <<"sample", "_", "handling", "_", "logistics">>,
      <<"weighing", "_", "stations">>,
      <<"weighing", " ", "stations">>,
      <<"data", "_", "analysis">>,
      <<"a", " ", "a">>,
      <<"a", "\n", "*", " ", "a">> }

PhraseDomains ==
    UNION {Padded(v, MaxPad) : v \in UNION {CaseVariants(p) : p \in Phrases}}

BaseProcess == <<"manual weighing">>
BaseSamples == Some(84)

CoreDomains ==
    { <<"Weighing">>,
      <<"Sample", " ", "Handling", " ", "Logistics">>,
      <<"data", "_", "analysis">> }
SampleValues == (-MaxSamples..MaxSamples) \cup {84}
ProcessAlphabet ==
    {"manual weighing", "\n", LabelSolution,
     "Manual Computer-Assisted Weighing Station (URS APL02)"}
ProcessTexts == Texts(ProcessAlphabet, MaxProcessLen)
Budgets == {None, Some(<<"under 100k">>)}

\* every domain with the other fields fixed; a few domains with every choice
\* of the other fields; each required field absent in turn
TriageInputs ==
    {TriageArgs(Some(d), BaseSamples, Some(BaseProcess), None) :
        d \in ShortDomains \cup PhraseDomains}
    \cup {TriageArgs(Some(d), Some(n), Some(p), b) :
             d \in CoreDomains, n \in SampleValues, p \in ProcessTexts, b \in Budgets}
    \cup { TriageArgs(None, BaseSamples, Some(BaseProcess), None),
           TriageArgs(Some(<<"weighing">>), None, Some(BaseProcess), None),
           TriageArgs(Some(<<"weighing">>), BaseSamples, None, None) }

BaseURS ==
    [ project_scope |-> Some(<<"Automate weighing of solids and liquids">>),
      throughput |-> Some(<<"84 compounds per day">>),
      weighing_specs |-> Some(<<"0.2mg - 100g with 0.1mg precision">>),
      chemical_types |-> Some(<< <<"Powder">>, <<"Flakes">> >>),
      labware_containers |-> Some(<< <<"8ml reaction vials">> >>),
      identification_labeling |-> Some(<<"Must read barcodes">>),
      data_handling |-> Some(<<"Import worklists from CSV">>),
      workflow_use_cases |-> Some(<< <<"one-to-many">>, <<"many-to-one">> >>) ]

UrsAlphabet == {"x", "\n", "*", " ", Header2}
UrsTexts == Texts(UrsAlphabet, MaxTextLen)

\* list elements: plain ones, one carrying a line break and a bullet marker,
\* one carrying a section header
ElemTexts ==
    Texts({"Powder", "Flakes"}, MaxElemLen)
    \cup { <<"Powder", "\n", "*", " ", "Flakes">>, <<Header5>> }
UrsLists == Texts(ElemTexts, MaxListLen)

\* the base record with one field replaced, or with one field absent
UrsInputs ==
    {[BaseURS EXCEPT ![f] = Some(t)] : f \in ScalarFields, t \in UrsTexts}
    \cup {[BaseURS EXCEPT ![f] = Some(l)] : f \in ListFields, l \in UrsLists}
    \cup {[BaseURS EXCEPT ![f] = None] : f \in ScalarFields \cup ListFields}

-----------------------------------------------------------------------------
(* Specifications. *)

NoArgs == [none |-> TRUE]

InitFor(convs) ==
    /\ kb = SOLUTION_KNOWLEDGE_BASE
    /\ pc = [c \in convs |-> "idle"]
    /\ tool = [c \in convs |-> "none"]
    /\ args = [c \in convs |-> NoArgs]
    /\ reqs = [c \in convs |-> NoRecord]
    /\ urs_data = [c \in convs |-> NoRecord]
    /\ outcome = [c \in convs |-> NotCalled]

Convs == DOMAIN pc

\* one conversation, one tool call, every input
Init == InitFor({1})

\* the driver calls a tool in a conversation that has not called one yet
Next ==
    \E c \in {x \in Convs : pc[x] = "idle"} :
        \/ \E a \in TriageInputs : get_lab_requirements(c, a)
        \/ \E a \in UrsInputs : generate_weighing_station_urs(c, a)

Spec == Init /\ [][Next]_vars

\* several conversations, each calling one tool once, in any order
ConvTriageInputs ==
    {TriageArgs(Some(d), Some(n), Some(p), None) :
        d \in { <<"weighing">>, <<"Weighing", " ">>,
                <<"weighing", "_", "stations">>,
                <<"Sample", " ", "Handling", " ", "Logistics">> },
        n \in {0, 84},
        p \in {BaseProcess, <<"by hand">>}}

ConvUrsInputs ==
    {[BaseURS EXCEPT !["chemical_types"] = Some(l)] :
        l \in { << <<"Powder">>, <<"Flakes">> >>, << <<"Flakes">>, <<"Powder">> >>,
                << <<"Liquids">> >>, <<>> }}

InitConv == InitFor(1..NumConvs)

NextConv ==
    \E c \in {x \in Convs : pc[x] = "idle"} :
        \/ \E a \in ConvTriageInputs : get_lab_requirements(c, a)
        \/ \E a \in ConvUrsInputs : generate_weighing_station_urs(c, a)

SpecConv == InitConv /\ [][NextConv]_vars

\* two conversations, each calling get_lab_requirements once with its own
\* problem_domain and the same other fields
PairDomains ==
    Texts({"a", "A", " ", "[Sigma]", "[sigma]"}, MaxPairLen)
    \cup {l \o v \o r : l \in {<<>>, <<" ">>, <<"\t">>},
                       v \in CaseVariants(<<"weighing">>),
                       r \in {<<>>, <<" ">>, <<"\t">>}}

PairInputs ==
    {TriageArgs(Some(d), BaseSamples, Some(BaseProcess), None) : d \in PairDomains}

InitPair == InitFor({1, 2})

NextPair ==
    \E c \in {x \in Convs : pc[x] = "idle"} :
        \E a \in PairInputs : get_lab_requirements(c, a)

SpecPair == InitPair /\ [][NextPair]_vars

-----------------------------------------------------------------------------
(* Claims. *)

TriageDone(c) == pc[c] = "done" /\ tool[c] = "get_lab_requirements"
UrsDone(c) == pc[c] = "done" /\ tool[c] = "generate_weighing_station_urs"

\* the record a finished call built
TheReqs(c) == CHOOSE r \in reqs[c] : TRUE
TheUrs(c) == CHOOSE r \in urs_data[c] : TRUE

\* C1: a call of get_lab_requirements whose samples_per_day is negative ends
\* with a ValidationError: no LabRequirements exists afterwards and no report
\* is returned, whatever the other arguments are.
C1_NegativeSamplesRejected ==
    \A c \in Convs :
        (TriageDone(c) /\ \E n \in args[c].samples_per_day : n < 0)
            => /\ outcome[c] = ValidationError
               /\ reqs[c] = NoRecord

\* C2: construction rejects empty required fields: an empty problem_domain or
\* current_process, an empty scalar field of the URS or an empty list of the
\* URS ends the call with a ValidationError, so no report is rendered from it.
C2_EmptyFieldsRejected ==
    \A c \in Convs :
        /\ (TriageDone(c)
              /\ (args[c].problem_domain = Some(<<>>)
                    \/ args[c].current_process = Some(<<>>)))
             => (outcome[c] = ValidationError /\ reqs[c] = NoRecord)
        /\ (UrsDone(c)
              /\ \E f \in ScalarFields \cup ListFields : args[c][f] = Some(<<>>))
             => (outcome[c] = ValidationError /\ urs_data[c] = NoRecord)

CatalogKeys ==
    { <<"weighing">>, <<"sample", "_", "handling", "_", "logistics">> }

\* C3: for every LabRequirements, the call returns the single no-match sentence
\* naming the normalized domain, with no solution label, budget label or bullet
\* line in it, exactly when the normalized domain is not a catalog key, and the
\* solution proposal in every other case.
C3_CatalogMembershipExact ==
    \A c \in Convs :
        (TriageDone(c) /\ reqs[c] # NoRecord) =>
            LET key == normalize(TheReqs(c).problem_domain)
                out == outcome[c].value
            IN /\ outcome[c].kind = "return"
               /\ (key \notin CatalogKeys) <=> (out = NoSolutionMessage(key))
               /\ (key \notin CatalogKeys) =>
                     /\ Count(out, LabelSolution) = 0
                     /\ Count(out, LabelBudget) = 0
                     /\ BulletStarts(out) = {}
               /\ (key \in CatalogKeys) =>
                     /\ SubSeq(out, 1, Len(TitleProposal)) = TitleProposal
                     /\ Count(out, LabelSolution) >= 1
                     /\ Count(out, LabelBudget) >= 1

\* a near miss of a catalog key ended in the no-match sentence
C3_Witness ==
    \E c \in Convs :
        /\ TriageDone(c) /\ reqs[c] # NoRecord
        /\ TheReqs(c).problem_domain = <<"Weighing", " ", "Stations">>
        /\ outcome[c].value = NoSolutionMessage(<<"weighing", "_", "stations">>)

\* C9: normalizing a normalized domain changes nothing, for every non-empty
\* problem_domain.
C9_NormalizeIdempotent ==
    \A c \in Convs :
        (TriageDone(c) /\ reqs[c] # NoRecord /\ TheReqs(c).problem_domain # <<>>) =>
            LET key == normalize(TheReqs(c).problem_domain)
            IN normalize(key) = key

\* a domain with upper case, an inner space and outer whitespace was normalized
C9_Witness ==
    \E c \in Convs :
        /\ TriageDone(c) /\ reqs[c] # NoRecord
        /\ TheReqs(c).problem_domain = <<"\t", "A", " ", "a">>
        /\ outcome[c].value = NoSolutionMessage(<<"a", "_", "a">>)
        /\ normalize(<<"a", "_", "a">>) = <<"a", "_", "a">>

-----------------------------------------------------------------------------
(* Reading a rendered report back. *)

\* the j-th smallest element of a set of positions
Nth(S, j) == CHOOSE x \in S : Cardinality({y \in S : y < x}) = j - 1

\* at position i of r start the given lines, one after the other, each ended
\* by a line break
RECURSIVE LinesFrom(_, _, _)
LinesFrom(r, i, lines) ==
    \/ lines = <<>>
    \/ /\ i <= Len(r)
       /\ LineAt(r, i) = Head(lines)
       /\ i + Len(Head(lines)) <= Len(r)
       /\ r[i + Len(Head(lines))] = "\n"
       /\ LinesFrom(r, i + Len(Head(lines)) + 1, Tail(lines))

DigitValue(a) == CHOOSE d \in 0..9 : Digit[d + 1] = a

RECURSIVE ParseNat(_)
ParseNat(t) ==
    IF Len(t) = 1 THEN DigitValue(t[1])
    ELSE 10 * ParseNat(SubSeq(t, 1, Len(t) - 1)) + DigitValue(t[Len(t)])

IsNumeral(t) ==
    LET ds == IF t # <<>> /\ Head(t) = "-" THEN Tail(t) ELSE t
    IN ds # <<>> /\ \A i \in 1..Len(ds) : \E d \in 1..10 : Digit[d] = ds[i]

ParseInt(t) == IF Head(t) = "-" THEN 0 - ParseNat(Tail(t)) ELSE ParseNat(t)

\* a finished call found the domain in the catalog
Matched(c) ==
    /\ TriageDone(c) /\ reqs[c] # NoRecord
    /\ normalize(TheReqs(c).problem_domain) \in CatalogKeys

\* the lines of the block of one catalog entry
ExpectedBlockLines(sol) ==
    << <<LabelSolution>> \o sol.solution_name,
       <<LabelDescription>> \o sol.description,
       <<LabelBudget>> \o sol.avg_budget,
       <<LabelRequirements>> >>
      \o [k \in 1..Len(sol.key_requirements) |->
             <<"*", " ">> \o sol.key_requirements[k]]
      \o << <<BlockRule>> >>

\* the report of call c holds one block per catalog entry of the key, in
\* catalog order, each with its lines in the fixed order
OneBlockPerSolution(c) ==
    LET key == normalize(TheReqs(c).problem_domain)
        out == outcome[c].value
        sols == SOLUTION_KNOWLEDGE_BASE[key]
        P == Positions(out, LabelSolution)
    IN /\ outcome[c].kind = "return"
       /\ Cardinality(P) = Len(sols)
       /\ \A j \in 1..Len(sols) :
             LinesFrom(out, Nth(P, j), ExpectedBlockLines(sols[j]))
       /\ key = <<"weighing">> =>
             \E i1 \in Positions(out, "Automated Weighing Station (URS APL01)") :
             \E i2 \in Positions(out, "$70,000 - $200,000") :
             \E i3 \in Positions(out, "Manual Computer-Assisted Weighing Station (URS APL02)") :
             \E i4 \in Positions(out, "$10,000 - $40,000") :
                i1 < i2 /\ i2 < i3 /\ i3 < i4

\* C4 as stated: for every matched LabRequirements the report holds exactly one
\* block per catalog entry of the key, in catalog order, each listing name,
\* description, budget and the key requirements one per line.
C4_OneBlockPerSolution ==
    \A c \in Convs : Matched(c) => OneBlockPerSolution(c)

\* C4 amended: the same, for every matched LabRequirements whose
\* current_process does not itself contain the solution label.
C4_OneBlockPerSolutionPlainProcess ==
    \A c \in Convs :
        (Matched(c) /\ Count(TheReqs(c).current_process, LabelSolution) = 0)
            => OneBlockPerSolution(c)

\* "Weighing" with a current_process that has a line break but no label was
\* rendered with its two blocks
C4_Witness ==
    \E c \in Convs :
        /\ Matched(c)
        /\ TheReqs(c).problem_domain = <<"Weighing">>
        /\ TheReqs(c).current_process = <<"manual weighing", "\n">>
        /\ Count(outcome[c].value, LabelSolution) = 2
        /\ OneBlockPerSolution(c)

\* the header of report out restates the given domain text, the number and the
\* process text
HeaderRestates(out, domainText, samples, process) ==
    LET k == Len(domainText)
        numStart == Len(TitleProposal) + k + 3
        ends == {j \in numStart..Len(out) : out[j] = " samples/day** using a '"}
    IN /\ Len(out) >= numStart
       /\ out[Len(TitleProposal) + 1] = "Based on your bottleneck with **"
       /\ SubSeq(out, Len(TitleProposal) + 2, Len(TitleProposal) + 1 + k) = domainText
       /\ out[Len(TitleProposal) + k + 2] = "** (processing **"
       /\ ends # {}
       /\ LET numEnd == Nth(ends, 1)
              numeral == SubSeq(out, numStart, numEnd - 1)
          IN /\ IsNumeral(numeral)
             /\ ParseInt(numeral) = samples
             /\ SubSeq(out, numEnd + 1, numEnd + Len(process)) = process
             /\ numEnd + Len(process) + 1 <= Len(out)
             /\ out[numEnd + Len(process) + 1] =
                  "' process), I have identified the following automation solutions from my URS knowledge base:"

\* C5 as stated: for every matched LabRequirements the header restates the
\* record's problem_domain, samples_per_day and current_process verbatim.
C5_HeaderVerbatim ==
    \A c \in Convs :
        Matched(c) =>
            HeaderRestates(outcome[c].value, TheReqs(c).problem_domain,
                           TheReqs(c).samples_per_day, TheReqs(c).current_process)

\* C5 amended: for every matched LabRequirements the header restates the
\* normalized problem_domain (the catalog key), and samples_per_day and
\* current_process verbatim.
C5_HeaderNormalizedDomain ==
    \A c \in Convs :
        Matched(c) =>
            HeaderRestates(outcome[c].value,
                           normalize(TheReqs(c).problem_domain),
                           TheReqs(c).samples_per_day, TheReqs(c).current_process)

\* "Sample Handling Logistics" with a negative throughput and a process that
\* starts with a line break was rendered under its key
C5_Witness ==
    \E c \in Convs :
        /\ Matched(c)
        /\ TheReqs(c).problem_domain = <<"Sample", " ", "Handling", " ", "Logistics">>
        /\ TheReqs(c).samples_per_day = -5
        /\ TheReqs(c).current_process = <<"\n", "manual weighing">>
        /\ HeaderRestates(outcome[c].value,
                          <<"sample", "_", "handling", "_", "logistics">>,
                          -5, <<"\n", "manual weighing">>)

-----------------------------------------------------------------------------
(* The rendered URS. *)

UrsRendered(c) ==
    UrsDone(c) /\ urs_data[c] # NoRecord /\ outcome[c].kind = "return"

HeaderSet == {SectionHeaders[k] : k \in 1..Len(SectionHeaders)}

\* every text stored in record d: the scalar fields and the list elements
FieldTexts(d) ==
    {d[f] : f \in ScalarFields}
    \cup UNION {{d[f][j] : j \in 1..Len(d[f])} : f \in ListFields}

\* each of the eight headers occurs once in out, and they occur in order
HeadersOnceInOrder(out) ==
    /\ \A k \in 1..Len(SectionHeaders) : Count(out, SectionHeaders[k]) = 1
    /\ \A k \in 1..(Len(SectionHeaders) - 1) :
          \A i \in Positions(out, SectionHeaders[k]) :
          \A j \in Positions(out, SectionHeaders[k + 1]) : i < j

\* C6 as stated: the output rendered from any valid WeighingStationURS holds
\* each of the eight section headers exactly once, in the order 1 to 8,
\* whatever the fields contain.
C6_HeadersOnceInOrder ==
    \A c \in Convs : UrsRendered(c) => HeadersOnceInOrder(outcome[c].value)

\* C6 amended: the same, for every valid WeighingStationURS none of whose
\* field texts or list elements contains the text of a section header.
C6_HeadersOnceInOrderPlainFields ==
    \A c \in Convs :
        (UrsRendered(c)
           /\ \A t \in FieldTexts(TheUrs(c)) : \A h \in HeaderSet : Count(t, h) = 0)
            => HeadersOnceInOrder(outcome[c].value)

\* a record whose project_scope holds a line break and a bullet marker, but no
\* header, was rendered with its eight headers
C6_Witness ==
    \E c \in Convs :
        /\ UrsRendered(c)
        /\ TheUrs(c).project_scope = <<"\n", "*", " ">>
        /\ HeadersOnceInOrder(outcome[c].value)
        /\ Positions(outcome[c].value, Header1) = {Len(TitleURS) + 1}

ScalarSection ==
    [ project_scope |-> Header1, throughput |-> Header2,
      weighing_specs |-> Header3, identification_labeling |-> Header6,
      data_handling |-> Header7 ]
ListSection ==
    [ chemical_types |-> Header4, labware_containers |-> Header5,
      workflow_use_cases |-> Header8 ]

\* the header of the section that position i of r lies in ("" before the first)
SectionOf(r, i) ==
    LET hs == {j \in LineStarts(r) : j < i /\ r[j] \in HeaderSet}
    IN IF hs = {} THEN "" ELSE r[Nth(hs, Cardinality(hs))]

\* the bullet lines of r under header h
BulletsIn(r, h) == {i \in BulletStarts(r) : SectionOf(r, i) = h}

RECURSIVE SumLen(_, _)
SumLen(d, fs) ==
    IF fs = {} THEN 0
    ELSE LET f == CHOOSE x \in fs : TRUE IN Len(d[f]) + SumLen(d, fs \ {f})

\* each scalar field gives one bullet under its section, each list field one
\* bullet per element under its section, in input order, and there is no
\* other bullet
BulletsPerField(d, out) ==
    /\ \A f \in ScalarFields :
          LET B == BulletsIn(out, ScalarSection[f])
          IN /\ Cardinality(B) = 1
             /\ \E i \in B : \E off \in {2, 3} :
                   SubSeq(out, i + off, i + off - 1 + Len(d[f])) = d[f]
    /\ \A f \in ListFields :
          LET B == BulletsIn(out, ListSection[f])
          IN /\ Cardinality(B) = Len(d[f])
             /\ \A j \in 1..Len(d[f]) :
                   SubSeq(out, Nth(B, j), Nth(B, j) + 1 + Len(d[f][j]))
                      = <<"*", " ">> \o d[f][j]
    /\ Cardinality(BulletStarts(out))
          = Cardinality(ScalarFields) + SumLen(d, ListFields)

\* C7 as stated: each scalar field renders as exactly one bullet under its own
\* section, each list field as exactly len(field) bullets under its own
\* section, one per element in input order, and in no other section.
C7_BulletsPerField ==
    \A c \in Convs :
        UrsRendered(c) => BulletsPerField(TheUrs(c), outcome[c].value)

\* C7 amended: the same, for every valid WeighingStationURS none of whose
\* field texts or list elements contains a line break.
C7_BulletsPerFieldNoLineBreak ==
    \A c \in Convs :
        (UrsRendered(c) /\ \A t \in FieldTexts(TheUrs(c)) : Count(t, "\n") = 0)
            => BulletsPerField(TheUrs(c), outcome[c].value)

\* labware_containers = [Flakes, Powder] next to chemical_types =
\* [Powder, Flakes] was rendered, each list under its own header in its order
C7_Witness ==
    \E c \in Convs :
        /\ UrsRendered(c)
        /\ TheUrs(c).chemical_types = << <<"Powder">>, <<"Flakes">> >>
        /\ TheUrs(c).labware_containers = << <<"Flakes">>, <<"Powder">> >>
        /\ BulletsPerField(TheUrs(c), outcome[c].value)
        /\ Cardinality(BulletsIn(outcome[c].value, Header4)) = 2
        /\ Cardinality(BulletsIn(outcome[c].value, Header5)) = 2

-----------------------------------------------------------------------------
(* Purity and the equivalence of domains. *)

SameAsciiLetter(a, b) ==
    \/ a = b
    \/ <<a, b>> \in CasePairs
    \/ <<b, a>> \in CasePairs
    \/ \E l \in {p[2] : p \in CasePairs} :
          <<a, l>> \in CasePairs /\ <<b, l>> \in CasePairs

\* a and b are the same letter in two letter cases
SameLetter(a, b) ==
    \/ SameAsciiLetter(a, b)
    \/ {a, b} = {"[Sigma]", "[sigma]"}

AllWhitespace(t) == \A i \in 1..Len(t) : t[i] \in Whitespace

\* s and t differ only in leading or trailing whitespace and in letters that
\* are the same under Same(_, _)
SameUpToPadding(s, t, Same(_, _)) ==
    \E i1 \in 1..(Len(s) + 1), j1 \in 0..Len(s),
       i2 \in 1..(Len(t) + 1), j2 \in 0..Len(t) :
        /\ i1 <= j1 + 1 /\ i2 <= j2 + 1
        /\ j1 - i1 = j2 - i2
        /\ AllWhitespace(SubSeq(s, 1, i1 - 1))
        /\ AllWhitespace(SubSeq(s, j1 + 1, Len(s)))
        /\ AllWhitespace(SubSeq(t, 1, i2 - 1))
        /\ AllWhitespace(SubSeq(t, j2 + 1, Len(t)))
        /\ \A k \in 0..(j1 - i1) : Same(s[i1 + k], t[i2 + k])

\* the two finished calls normalized to one key and returned one string
SameKeyAndBranch(c1, c2) ==
    /\ normalize(TheReqs(c1).problem_domain)
         = normalize(TheReqs(c2).problem_domain)
    /\ outcome[c1] = outcome[c2]

BothBuilt(c1, c2) ==
    /\ TriageDone(c1) /\ TriageDone(c2)
    /\ reqs[c1] # NoRecord /\ reqs[c2] # NoRecord

\* C10 as stated: two problem_domains that differ only in letter case or in
\* leading or trailing whitespace normalize to the same key, and the two calls
\* take the same branch: with the other fields equal they return the same
\* string.
C10_CaseAndPaddingIgnored ==
    \A c1, c2 \in Convs :
        (BothBuilt(c1, c2)
           /\ SameUpToPadding(TheReqs(c1).problem_domain,
                              TheReqs(c2).problem_domain, SameLetter))
            => SameKeyAndBranch(c1, c2)

\* C10 amended: the same, for two problem_domains that differ only in the case
\* of ASCII letters or in leading or trailing whitespace.
C10_AsciiCaseAndPaddingIgnored ==
    \A c1, c2 \in Convs :
        (BothBuilt(c1, c2)
           /\ SameUpToPadding(TheReqs(c1).problem_domain,
                              TheReqs(c2).problem_domain, SameAsciiLetter))
            => SameKeyAndBranch(c1, c2)

\* " WEIGHING" and "weighing<tab>" both ended in the proposal for "weighing"
C10_Witness ==
    \E c1, c2 \in Convs :
        /\ Matched(c1) /\ Matched(c2)
        /\ TheReqs(c1).problem_domain = <<" ", "WEIGHING">>
        /\ TheReqs(c2).problem_domain = <<"weighing", "\t">>
        /\ outcome[c1] = outcome[c2]
        /\ Count(outcome[c1].value, LabelSolution) = 2

====
